---- MODULE Spec2Model ----
(***************************************************************************)
(* A state-machine model of ML-From-Scratch's multilayer perceptron        *)
(* (DenseLayer, DropoutLayer, MultilayerPerceptron) and of its gradient    *)
(* boosting regressor.                                                     *)
(*                                                                         *)
(* Arrays are sequences of rows of integers.  Numbers are integers: the    *)
(* random draws (initial weights, dropout draws, shuffles) are taken from  *)
(* small sets, and the pluggable strategies -- activation, loss, optimizer,*)
(* regression tree -- are instances with integer arithmetic.               *)
(***************************************************************************)
EXTENDS Integers, Sequences, FiniteSets, TLC

(***************************************************************************)
(* Bounds of the model.                                                    *)
(***************************************************************************)
MaxLayers == 2        \* layers a network is given through add
MaxSamples == 10      \* largest n_samples of the batch schedule taken alone
MaxBatchSize == 2     \* largest batch_size of a network
MaxIterations == 2    \* largest n_iterations
MaxFits == 1          \* fit calls on one network
MaxCalls == 2         \* direct backward_pass calls on a stand-alone layer
MaxEstimators == 2    \* largest n_estimators
MaxAbs == 1000        \* largest magnitude a number of an array takes

(***************************************************************************)
(* numpy on 2-d arrays.                                                    *)
(***************************************************************************)
Rows(A) == Len(A)
Cols(A) == IF Len(A) = 0 THEN 0 ELSE Len(A[1])
Max2(a, b) == IF a >= b THEN a ELSE b

\* the numbers of the arrays saturate: a magnitude beyond MaxAbs is held as MaxAbs
Num(x) == IF x > MaxAbs THEN MaxAbs ELSE IF x < 0 - MaxAbs THEN 0 - MaxAbs ELSE x

RECURSIVE SumSeq(_)
SumSeq(s) == IF Len(s) = 0 THEN 0 ELSE s[1] + SumSeq(Tail(s))

\* A.dot(B)
Dot(A, B) ==
    [i \in 1..Rows(A) |-> [j \in 1..Cols(B) |->
        Num(SumSeq([k \in 1..Cols(A) |-> A[i][k] * B[k][j]]))]]

\* A.T
Transpose(A) == [j \in 1..Cols(A) |-> [i \in 1..Rows(A) |-> A[i][j]]]

\* index into an axis of length n, with numpy's broadcasting of an axis of length 1
Bc(n, i) == IF n = 1 THEN 1 ELSE i

\* elementwise A + B, A - B, A * B with broadcasting
MatAdd(A, B) ==
    [i \in 1..Max2(Rows(A), Rows(B)) |-> [j \in 1..Max2(Cols(A), Cols(B)) |->
        Num(A[Bc(Rows(A), i)][Bc(Cols(A), j)] + B[Bc(Rows(B), i)][Bc(Cols(B), j)])]]
MatSub(A, B) ==
    [i \in 1..Max2(Rows(A), Rows(B)) |-> [j \in 1..Max2(Cols(A), Cols(B)) |->
        Num(A[Bc(Rows(A), i)][Bc(Cols(A), j)] - B[Bc(Rows(B), i)][Bc(Cols(B), j)])]]
MatMul(A, B) ==
    [i \in 1..Max2(Rows(A), Rows(B)) |-> [j \in 1..Max2(Cols(A), Cols(B)) |->
        Num(A[Bc(Rows(A), i)][Bc(Cols(A), j)] * B[Bc(Rows(B), i)][Bc(Cols(B), j)])]]

\* c * A for a scalar c
Scale(c, A) == [i \in 1..Rows(A) |-> [j \in 1..Cols(A) |-> Num(c * A[i][j])]]

\* np.zeros(np.shape(A))
ZerosLike(A) == [i \in 1..Rows(A) |-> [j \in 1..Cols(A) |-> 0]]

\* np.sum(A, axis=0, keepdims=True)
ColSum(A) == << [j \in 1..Cols(A) |-> Num(SumSeq([i \in 1..Rows(A) |-> A[i][j]]))] >>

\* A.any()
AnyNonZero(A) == \E i \in 1..Rows(A) : \E j \in 1..Cols(A) : A[i][j] # 0

\* the sum of all elements, and their number
Total(A) == SumSeq([i \in 1..Rows(A) |-> SumSeq(A[i])])
Size(A) == Rows(A) * Cols(A)

\* index (from 0) of the first maximum of a row: np.argmax
ArgMaxRow(r) ==
    (CHOOSE k \in 1..Len(r) :
        /\ \A m \in 1..Len(r) : r[m] <= r[k]
        /\ \A m \in 1..(k - 1) : r[m] < r[k]) - 1
ArgMax(A) == [i \in 1..Rows(A) |-> ArgMaxRow(A[i])]

\* A[idx] for a sequence idx of row positions counted from 0
Take(A, idx) == [i \in 1..Len(idx) |-> A[idx[i] + 1]]

(***************************************************************************)
(* The pluggable strategies (mlfromscratch.utils), as the spec gives their *)
(* contracts: an activation is a function/gradient pair, a loss is a       *)
(* loss/gradient pair, an optimizer holds state and maps (w, grad) to the  *)
(* new w.                                                                  *)
(***************************************************************************)
Activations == {"identity", "relu"}

\* activation.function(Z)
ActFunction(a, Z) ==
    [i \in 1..Rows(Z) |-> [j \in 1..Cols(Z) |->
        IF a = "relu" /\ Z[i][j] < 0 THEN 0 ELSE Z[i][j]]]

\* activation.gradient(Z)
ActGradient(a, Z) ==
    [i \in 1..Rows(Z) |-> [j \in 1..Cols(Z) |->
        IF a = "relu" /\ Z[i][j] < 0 THEN 0 ELSE 1]]

\* SquareLoss.gradient(y, p) = -(y - p)
LossGradient(y, p) == MatSub(p, y)

\* np.mean(SquareLoss.loss(y, p)) = mean(0.5 * (y - p)^2), kept as a fraction
LossMean(y, p) ==
    LET d == MatSub(y, p)
    IN  [num |-> Total(MatMul(d, d)), den |-> 2 * Size(d)]

\* GradientDescent(learning_rate, momentum) before its first update
OptimizerTemplate == [learning_rate |-> 1, momentum |-> 1, w_updt |-> << >>]

\* optimizer.update(w, grad): the instance after the call, and the returned w
OptUpdate(o, w, grad) ==
    LET w0 == IF AnyNonZero(o.w_updt) THEN o.w_updt ELSE ZerosLike(w)
        wu == MatAdd(Scale(o.momentum, w0), grad)
    IN  [opt |-> [o EXCEPT !.w_updt = wu],
         w   |-> MatSub(w, Scale(o.learning_rate, wu))]

\* categorical_to_binary(y): one column per class 0..max(y)
RECURSIVE MaxSeq(_)
MaxSeq(s) == IF Len(s) = 1 THEN s[1] ELSE Max2(s[1], MaxSeq(Tail(s)))
OneHot(y) ==
    [i \in 1..Len(y) |-> [j \in 1..(MaxSeq(y) + 1) |-> IF y[i] = j - 1 THEN 1 ELSE 0]]

(***************************************************************************)
(* Random draws.  np.random is one global generator: its state decides     *)
(* each draw and every draw advances it.  A draw for a whole array is one  *)
(* of three patterns.                                                      *)
(***************************************************************************)
\* the generator's state after one more draw
Advance(rng) == rng + 1

\* np.random.random(shape) scaled to [a, b), in integer units
WeightDraw(rng) == <<"alt", "hi", "zero">>[(rng % 3) + 1]
RandomArray(r, c, draw) ==
    [i \in 1..r |-> [j \in 1..c |->
        CASE draw = "hi"   -> 1
          [] draw = "zero" -> 0
          [] OTHER         -> IF (i + j) % 2 = 0 THEN 1 ELSE -1]]

\* np.random.uniform(size=shape): 0 is the draw 0.0, 1 a draw strictly
\* between 0 and 1
UniformDraw(rng) == <<"high", "alt", "low">>[(rng % 3) + 1]
Uniform(r, c, draw) ==
    [i \in 1..r |-> [j \in 1..c |->
        CASE draw = "low"  -> 0
          [] draw = "high" -> 1
          [] OTHER         -> (i + j) % 2]]

\* np.random.shuffle(idx) on idx = 1..n: a rotation set by the generator
ShuffleDraw(rng, n) == [i \in 1..n |-> ((i - 1 + rng) % n) + 1]

(***************************************************************************)
(* DenseLayer                                                              *)
(***************************************************************************)
\* DenseLayer.__init__
DenseLayer(n_inputs, n_units, activation) ==
    [kind |-> "dense", n_inputs |-> n_inputs, n_units |-> n_units,
     activation |-> activation, layer_input |-> << >>,
     W |-> << >>, wb |-> << >>, W_opt |-> 0, wb_opt |-> 0]

\* copy.copy(optimizer) on the heap of optimizer instances: the new heap;
\* the copy is its last element
CopyOf(heap, optimizer) == Append(heap, heap[optimizer])

\* a plausible slip: both parameters keep the network's own optimizer
InitializeShared(layer, heap, optimizer, rng) ==
    [layer |-> [layer EXCEPT
                    !.W = RandomArray(layer.n_inputs, layer.n_units, WeightDraw(rng)),
                    !.wb = RandomArray(1, layer.n_units, WeightDraw(Advance(rng))),
                    !.W_opt = optimizer,
                    !.wb_opt = optimizer],
     heap  |-> heap,
     rng   |-> Advance(Advance(rng))]

\* DenseLayer.initialize(optimizer)
Initialize(layer, heap, optimizer, rng) ==
    LET h1 == CopyOf(heap, optimizer)
        h2 == CopyOf(h1, optimizer)
    IN  [layer |-> [layer EXCEPT
                        !.W = RandomArray(layer.n_inputs, layer.n_units, WeightDraw(rng)),
                        !.wb = RandomArray(1, layer.n_units, WeightDraw(Advance(rng))),
                        !.W_opt = Len(h1),
                        !.wb_opt = Len(h2)],
         heap  |-> h2,
         rng   |-> Advance(Advance(rng))]

\* layer_input.dot(W) + wb; a 0-d layer_input (nd = 0, held as a 1x1 array)
\* multiplies W as a scalar
PreActivation(layer, input, nd) ==
    IF nd = 0 THEN MatAdd(Scale(input[1][1], layer.W), layer.wb)
    ELSE MatAdd(Dot(input, layer.W), layer.wb)

\* DenseLayer.forward_pass(layer_input, training)
DenseForward(layer, input, nd, training, rng) ==
    [layer  |-> [layer EXCEPT !.layer_input = input],
     output |-> ActFunction(layer.activation, PreActivation(layer, input, nd)),
     nd     |-> 2,
     rng    |-> rng]

\* the accumulated gradient at the layer (line 61)
LayerGrad(layer, acc_grad) ==
    MatMul(acc_grad,
           ActGradient(layer.activation, PreActivation(layer, layer.layer_input, 2)))

\* DenseLayer.backward_pass(acc_grad): the layer and the optimizer heap after
\* the call, the returned gradient, and the local grad_w
DenseBackward(layer, heap, acc_grad) ==
    LET layer_grad == LayerGrad(layer, acc_grad)
        grad_w  == Dot(Transpose(layer.layer_input), layer_grad)
        grad_wb == ColSum(layer_grad)
        uW == OptUpdate(heap[layer.W_opt], layer.W, grad_w)
        h1 == [heap EXCEPT ![layer.W_opt] = uW.opt]
        uB == OptUpdate(h1[layer.wb_opt], layer.wb, grad_wb)
        h2 == [h1 EXCEPT ![layer.wb_opt] = uB.opt]
    IN  [layer    |-> [layer EXCEPT !.W = uW.w, !.wb = uB.w],
         heap     |-> h2,
         acc_grad |-> Dot(layer_grad, Transpose(uW.w)),
         grad_w   |-> grad_w,
         updated  |-> <<layer.W_opt, layer.wb_opt>>]

(***************************************************************************)
(* DropoutLayer                                                            *)
(***************************************************************************)
\* DropoutLayer.__init__
DropoutLayer(p) == [kind |-> "dropout", p |-> p, mask |-> << >>]

\* np.random.uniform(size=X.shape) > p, True held as 1
DrawMask(X, p, rng) ==
    [i \in 1..Rows(X) |-> [j \in 1..Cols(X) |->
        IF Uniform(Rows(X), Cols(X), UniformDraw(rng))[i][j] > p THEN 1 ELSE 0]]

\* DropoutLayer.forward_pass(X, training)
DropoutForward(layer, X, nd, training, rng) ==
    IF training
    THEN [layer  |-> [layer EXCEPT !.mask = DrawMask(X, layer.p, rng)],
          output |-> MatMul(X, DrawMask(X, layer.p, rng)),
          nd     |-> nd,
          rng    |-> Advance(rng)]
    ELSE [layer |-> layer, output |-> Scale(1 - layer.p, X), nd |-> nd, rng |-> rng]

\* DropoutLayer.backward_pass(acc_grad)
DropoutBackward(layer, heap, acc_grad) ==
    [layer |-> layer, heap |-> heap,
     acc_grad |-> MatMul(acc_grad, layer.mask), updated |-> << >>]

\* layer.forward_pass / layer.backward_pass, by the layer's class
LayerForward(layer, input, nd, training, rng) ==
    IF layer.kind = "dense" THEN DenseForward(layer, input, nd, training, rng)
    ELSE DropoutForward(layer, input, nd, training, rng)
LayerBackward(layer, heap, acc_grad) ==
    IF layer.kind = "dense"
    THEN LET r == DenseBackward(layer, heap, acc_grad)
         IN  [layer |-> r.layer, heap |-> r.heap, acc_grad |-> r.acc_grad,
              updated |-> r.updated]
    ELSE DropoutBackward(layer, heap, acc_grad)

(***************************************************************************)
(* MultilayerPerceptron._forward_pass and _backward_pass: the layers after *)
(* the pass, what it returns, and the layer calls it made, in order        *)
(***************************************************************************)
RECURSIVE ForwardFrom(_, _, _, _, _, _, _)
ForwardFrom(ls, i, layer_output, nd, training, rng, calls) ==
    IF i > Len(ls)
    THEN [layers |-> ls, output |-> layer_output, nd |-> nd, rng |-> rng, calls |-> calls]
    ELSE LET r == LayerForward(ls[i], layer_output, nd, training, rng)
         IN  ForwardFrom([ls EXCEPT ![i] = r.layer], i + 1, r.output, r.nd, training,
                         r.rng, Append(calls, <<"forward_pass", i, training>>))

\* _forward_pass(X, training)
ForwardPass(ls, X, nd, training, rng) == ForwardFrom(ls, 1, X, nd, training, rng, << >>)

RECURSIVE BackwardFrom(_, _, _, _, _, _)
BackwardFrom(ls, heap, i, acc_grad, calls, updated) ==
    IF i < 1
    THEN [layers |-> ls, heap |-> heap, calls |-> calls, updated |-> updated]
    ELSE LET r == LayerBackward(ls[i], heap, acc_grad)
         IN  BackwardFrom([ls EXCEPT ![i] = r.layer], r.heap, i - 1, r.acc_grad,
                          Append(calls, <<"backward_pass", i, TRUE>>),
                          updated \o r.updated)

\* a plausible slip: the walk back stops before the first layer
BackwardPassSkippingFirst(ls, heap, loss_grad) ==
    LET r == BackwardFrom(Tail(ls), heap, Len(ls) - 1, loss_grad, << >>, << >>)
    IN  [layers  |-> <<ls[1]>> \o r.layers,
         heap    |-> r.heap,
         calls   |-> [k \in 1..Len(r.calls) |->
                        <<"backward_pass", r.calls[k][2] + 1, TRUE>>],
         updated |-> r.updated]

\* _backward_pass(loss_grad)
BackwardPass(ls, heap, loss_grad) ==
    BackwardFrom(ls, heap, Len(ls), loss_grad, << >>, << >>)

(***************************************************************************)
(* Batch scheduling                                                        *)
(***************************************************************************)
\* int(n_samples / batch_size)
NBatches(n_samples, batch_size) == n_samples \div batch_size

\* a plausible slip: equal splits of n // sections positions, the remainder
\* left out
ArraySplitDropping(n, sections) ==
    LET each == n \div sections
    IN  [k \in 1..sections |-> [m \in 1..each |-> (k - 1) * each + m - 1]]

\* np.array_split(np.arange(n), sections) for sections >= 1: the first
\* n % sections splits hold n // sections + 1 positions, the others n // sections
ArraySplit(n, sections) ==
    LET each   == n \div sections
        extras == n % sections
        start(k) == (k - 1) * each + (IF k - 1 < extras THEN k - 1 ELSE extras)
        size(k)  == each + (IF k <= extras THEN 1 ELSE 0)
    IN  [k \in 1..sections |-> [m \in 1..size(k) |-> start(k) + m - 1]]

\* shuffle_data(X, y): the same reordering of the rows of both
ShuffleData(X, y, rng) ==
    LET p == ShuffleDraw(rng, Len(X))
    IN  [X |-> [i \in 1..Len(X) |-> X[p[i]]], y |-> [i \in 1..Len(y) |-> y[p[i]]],
         rng |-> Advance(rng)]

(***************************************************************************)
(* State                                                                   *)
(***************************************************************************)
VARIABLES
    rng,      \* the state of np.random's global generator
    data,     \* the training set (X, y) the caller holds
    net,      \* MultilayerPerceptron: n_iterations, batch_size, optimizer, X_val, y_val
    layers,   \* MultilayerPerceptron.layers (or the one stand-alone layer)
    heap,     \* the optimizer instances; net.optimizer, W_opt, wb_opt refer into it
    errors,   \* MultilayerPerceptron.errors
    pc,       \* where the running call stands
    fr,       \* the locals of the running fit / predict and of its _forward_pass / _backward_pass
    out,      \* what the last predict returned, until the network is fitted or extended
    hist,     \* history: fit calls, updates per optimizer in this fit, calls of this batch
    ret,      \* what the last direct layer call returned
    gbr,      \* GradientBoostingRegressor: learning_rate, trees
    gfr,      \* the locals of the regressor's running fit
    gout      \* what the regressor's last predict returned

vars == <<rng, data, net, layers, heap, errors, pc, fr, out, hist, ret, gbr, gfr, gout>>

(***************************************************************************)
(* Inputs                                                                  *)
(***************************************************************************)
NoArray == << >>

\* the seeds of the generator
Seeds == {0}
LayerSeeds == {0, 1, 2}

\* constructor argument validation_data: None, or (X_val, y_val)
ValidationData ==
    { [given |-> FALSE, X |-> NoArray, y |-> << >>],
      [given |-> TRUE,  X |-> << <<0, 0>> >>, y |-> <<0>>],
      [given |-> TRUE,  X |-> << <<1, 2>> >>, y |-> <<0>>] }

\* what np.empty([]) may hold: zero, or something else
Uninitialized == {0, 1}

\* training sets: one and four equal rows of one class, and three rows of
\* two classes
Datasets ==
    { [X |-> [i \in 1..n |-> <<1, 0>>], y |-> [i \in 1..n |-> 0]] : n \in {1, 4} }
    \cup { [X |-> << <<1, 0>>, <<0, 1>>, <<1, 1>> >>, y |-> <<0, 1, 1>>] }

\* direct calls on a stand-alone Dense layer
LayerInputs == { << <<1, 2>> >>, << <<1, 0>>, <<0, 1>> >> }
LayerGradients(r, c) == { [i \in 1..r |-> [j \in 1..c |-> v]] : v \in {1, -1} }

\* the regressor's training sets (one feature), inputs and learning rates
GBRDatasets == { [X |-> <<0, 1>>, y |-> <<1, 2>>], [X |-> <<0, 0, 1>>, y |-> <<1, 1, 0>>] }
GBRInputs == { <<0>>, <<1, 0>>, <<0, 1>> }
LearningRates == {1, 2}
FeatureValues == {0, 1}
LeafValues == {-1, 0, 1}

PredictInputs == { << <<1, 0>>, <<0, 1>> >> }

\* the layers a caller constructs
NewLayers ==
    { DenseLayer(2, 1, "identity"), DenseLayer(2, 2, "relu"),
      DropoutLayer(0), DropoutLayer(1) }

\* the width a batch of width w leaves the layers with; -1 when a Dense
\* layer's n_inputs does not match
RECURSIVE WidthAfter(_, _)
WidthAfter(ls, w) ==
    IF Len(ls) = 0 THEN w
    ELSE IF ls[1].kind = "dense"
         THEN IF ls[1].n_inputs = w THEN WidthAfter(Tail(ls), ls[1].n_units) ELSE -1
         ELSE WidthAfter(Tail(ls), w)

\* the caller's contract: consecutive dimensions match
Compatible(ls, w_in, w_out) == Len(ls) >= 1 /\ WidthAfter(ls, w_in) = w_out

(***************************************************************************)
(* MultilayerPerceptron                                                    *)
(***************************************************************************)
NoFrame ==
    [X |-> NoArray, y |-> NoArray, n_samples |-> 0, n_batches |-> 0, it |-> 0,
     X_ |-> NoArray, y_ |-> NoArray, splits |-> << >>, b |-> 0, seen |-> << >>,
     y_batch |-> NoArray, y_pred |-> NoArray, loss_grad |-> NoArray,
     batch_t_error |-> << >>]

NoOut == [valid |-> FALSE, X |-> NoArray, labels |-> << >>]
NoRet == [op |-> "", arg |-> NoArray, value |-> NoArray, grad_w |-> NoArray]
NoData == [X |-> NoArray, y |-> << >>]

\* the learnable parameters of the layers
Params(ls) ==
    [i \in 1..Len(ls) |-> IF ls[i].kind = "dense" THEN <<ls[i].W, ls[i].wb>> ELSE << >>]

NoHist ==
    [last |-> "", repeat |-> FALSE, fits |-> 0, len0 |-> 0, vlen0 |-> 0,
     params0 |-> << >>, heap0 |-> << >>, nupd |-> <<0>>, calls |-> << >>, direct |-> 0]

\* MultilayerPerceptron.__init__; garbage is what np.empty([]) holds
MLPInit(n_iterations, batch_size, validation_data, garbage) ==
    [n_iterations |-> n_iterations, batch_size |-> batch_size, optimizer |-> 1,
     X_val |-> IF validation_data.given THEN validation_data.X ELSE << <<garbage>> >>,
     y_val |-> IF validation_data.given THEN OneHot(validation_data.y) ELSE << <<garbage>> >>,
     val_nd |-> IF validation_data.given THEN 2 ELSE 0]

NoTree == [fitted |-> FALSE, leaf |-> << >>]
NoGFrame == [pc |-> "idle", fits |-> 0, X |-> << >>, y |-> << >>, y_pred |-> << >>, i |-> 0]
NoGOut == [valid |-> FALSE, raised |-> FALSE, X |-> << >>, y_pred |-> << >>]

\* no regressor is in play
GBRIdle ==
    /\ gbr = [n_estimators |-> 0, learning_rate |-> 1, trees |-> << >>]
    /\ gfr = NoGFrame
    /\ gout = NoGOut

\* no network is in play
MLPIdle ==
    /\ data = NoData
    /\ net = MLPInit(0, 1, [given |-> FALSE, X |-> NoArray, y |-> << >>], 0)
    /\ layers = << >>
    /\ heap = <<OptimizerTemplate>>
    /\ errors = [training |-> << >>, validation |-> << >>]
    /\ pc = "idle"
    /\ fr = NoFrame
    /\ out = NoOut
    /\ hist = NoHist
    /\ ret = NoRet

mlpVars == <<rng, data, net, layers, heap, errors, pc, fr, out, hist, ret>>

Init ==
    /\ rng \in Seeds
    /\ data \in Datasets
    /\ \E n \in 0..MaxIterations, bs \in 1..MaxBatchSize,
          v \in ValidationData, g \in Uninitialized :
          /\ (v.given => g = 0)
          /\ net = MLPInit(n, bs, v, g)
    /\ layers = << >>
    /\ heap = <<OptimizerTemplate>>
    /\ errors = [training |-> << >>, validation |-> << >>]
    /\ pc = "idle"
    /\ fr = NoFrame
    /\ out = NoOut
    /\ hist = NoHist
    /\ ret = NoRet
    /\ GBRIdle

\* MultilayerPerceptron.add(layer)
Add(layer) ==
    /\ pc = "idle"
    /\ Len(layers) < MaxLayers
    /\ IF layer.kind = "dense"
       THEN LET r == Initialize(layer, heap, net.optimizer, rng)
            IN  /\ layers' = Append(layers, r.layer)
                /\ heap' = r.heap
                /\ rng' = r.rng
       ELSE /\ layers' = Append(layers, layer)
            /\ heap' = heap
            /\ rng' = rng
    /\ hist' = [hist EXCEPT !.last = "add", !.repeat = FALSE,
                            !.nupd = [k \in 1..Len(heap') |-> 0]]
    /\ out' = NoOut
    /\ UNCHANGED <<data, net, errors, pc, fr, ret, gbr, gfr, gout>>

\* fit, lines 135-140
Fit ==
    /\ pc = "idle"
    /\ hist.fits < MaxFits
    /\ Compatible(layers, Cols(data.X), Cols(OneHot(data.y)))
    /\ fr' = [NoFrame EXCEPT !.X = data.X, !.y = OneHot(data.y),
                             !.n_samples = Rows(data.X),
                             !.n_batches = NBatches(Rows(data.X), net.batch_size)]
    /\ pc' = "epoch"
    /\ hist' = [hist EXCEPT !.last = "fit", !.repeat = FALSE, !.fits = @ + 1,
                            !.len0 = Len(errors.training),
                            !.vlen0 = Len(errors.validation),
                            !.params0 = Params(layers), !.heap0 = heap,
                            !.nupd = [k \in 1..Len(heap) |-> 0], !.calls = << >>]
    /\ out' = NoOut
    /\ UNCHANGED <<rng, data, net, layers, heap, errors, ret, gbr, gfr, gout>>

\* a plausible slip: no error when there is no batch to split into
EpochBeginNoRaise ==
    /\ pc = "epoch"
    /\ fr.it < net.n_iterations
    /\ LET s == ShuffleData(fr.X, fr.y, rng)
       IN  /\ rng' = s.rng
           /\ fr' = [fr EXCEPT !.X_ = s.X, !.y_ = s.y, !.batch_t_error = << >>,
                               !.splits = IF fr.n_batches <= 0 THEN << >>
                                          ELSE ArraySplit(fr.n_samples, fr.n_batches),
                               !.b = 1, !.seen = << >>]
           /\ pc' = "batch"
    /\ UNCHANGED <<data, net, layers, heap, errors, out, hist, ret, gbr, gfr, gout>>

\* fit, lines 141-145: the next epoch shuffles and splits; np.array_split
\* raises ValueError when n_batches is not positive
EpochBegin ==
    /\ pc = "epoch"
    /\ fr.it < net.n_iterations
    /\ LET s == ShuffleData(fr.X, fr.y, rng)
       IN  /\ rng' = s.rng
           /\ IF fr.n_batches <= 0
              THEN /\ fr' = [fr EXCEPT !.X_ = s.X, !.y_ = s.y, !.batch_t_error = << >>]
                   /\ pc' = "raised"
              ELSE /\ fr' = [fr EXCEPT !.X_ = s.X, !.y_ = s.y, !.batch_t_error = << >>,
                                       !.splits = ArraySplit(fr.n_samples, fr.n_batches),
                                       !.b = 1, !.seen = << >>]
                   /\ pc' = "batch"
    /\ UNCHANGED <<data, net, layers, heap, errors, out, hist, ret, gbr, gfr, gout>>

\* fit, lines 146-149: the next batch's forward pass
BatchForward ==
    /\ pc = "batch"
    /\ fr.b <= Len(fr.splits)
    /\ LET r == ForwardPass(layers, Take(fr.X_, fr.splits[fr.b]), 2, TRUE, rng)
       IN  /\ layers' = r.layers
           /\ rng' = r.rng
           /\ fr' = [fr EXCEPT !.y_batch = Take(fr.y_, fr.splits[fr.b]),
                               !.y_pred = r.output,
                               !.seen = @ \o fr.splits[fr.b]]
           /\ hist' = [hist EXCEPT !.calls = r.calls]
    /\ pc' = "loss"
    /\ UNCHANGED <<data, net, heap, errors, out, ret, gbr, gfr, gout>>

\* fit, lines 152-155: the batch's mean loss and the loss gradient
BatchLoss ==
    /\ pc = "loss"
    /\ fr' = [fr EXCEPT
                !.batch_t_error = Append(@, LossMean(fr.y_batch, fr.y_pred)),
                !.loss_grad = LossGradient(fr.y_batch, fr.y_pred)]
    /\ pc' = "backward"
    /\ hist' = [hist EXCEPT !.calls = Append(@, <<"loss_gradient", 0, TRUE>>)]
    /\ UNCHANGED <<rng, data, net, layers, heap, errors, out, ret, gbr, gfr, gout>>

RECURSIVE Bump(_, _)
Bump(counts, ids) ==
    IF Len(ids) = 0 THEN counts
    ELSE Bump([counts EXCEPT ![ids[1]] = @ + 1], Tail(ids))

\* fit, line 158: the batch's backward pass; the batch loop goes on
BatchBackward ==
    /\ pc = "backward"
    /\ LET r == BackwardPass(layers, heap, fr.loss_grad)
       IN  /\ layers' = r.layers
           /\ heap' = r.heap
           /\ hist' = [hist EXCEPT !.calls = @ \o r.calls,
                                   !.nupd = Bump(@, r.updated)]
    /\ fr' = [fr EXCEPT !.b = @ + 1]
    /\ pc' = "batch"
    /\ UNCHANGED <<rng, data, net, errors, out, ret, gbr, gfr, gout>>

\* a plausible slip: the history is rewritten instead of appended to
EpochEndOverwrite ==
    /\ pc = "batch"
    /\ fr.b > Len(fr.splits)
    /\ errors' = [errors EXCEPT !.training =
                    <<[terms |-> fr.batch_t_error, n |-> fr.n_batches]>>]
    /\ fr' = [fr EXCEPT !.it = @ + 1]
    /\ pc' = "epoch"
    /\ UNCHANGED <<rng, data, net, layers, heap, out, hist, ret, gbr, gfr, gout>>

\* fit, lines 160-166: the epoch's batches are done: the mean training loss is
\* recorded, and, when X_val.any(), the validation loss of a forward pass
EpochEnd ==
    /\ pc = "batch"
    /\ fr.b > Len(fr.splits)
    /\ IF AnyNonZero(net.X_val)
       THEN LET r == ForwardPass(layers, net.X_val, net.val_nd, TRUE, rng)
            IN  /\ layers' = r.layers
                /\ rng' = r.rng
                /\ errors' = [training |->
                                Append(errors.training,
                                       [terms |-> fr.batch_t_error, n |-> fr.n_batches]),
                              validation |->
                                Append(errors.validation, LossMean(net.y_val, r.output))]
       ELSE /\ errors' = [errors EXCEPT !.training =
                            Append(@, [terms |-> fr.batch_t_error, n |-> fr.n_batches])]
            /\ UNCHANGED <<layers, rng>>
    /\ fr' = [fr EXCEPT !.it = @ + 1]
    /\ pc' = "epoch"
    /\ UNCHANGED <<data, net, heap, out, hist, ret, gbr, gfr, gout>>

\* fit returns: range(n_iterations) is exhausted
FitReturn ==
    /\ pc = "epoch"
    /\ fr.it >= net.n_iterations
    /\ pc' = "idle"
    /\ fr' = NoFrame
    /\ hist' = [hist EXCEPT !.last = "fit returned"]
    /\ UNCHANGED <<rng, data, net, layers, heap, errors, out, ret, gbr, gfr, gout>>

\* a plausible slip: the forward pass is left in its default training mode
PredictTraining(X) ==
    /\ pc = "idle"
    /\ Len(layers) >= 1
    /\ WidthAfter(layers, Cols(X)) >= 1
    /\ LET r == ForwardPass(layers, X, 2, TRUE, rng)
       IN  /\ layers' = r.layers
           /\ rng' = r.rng
           /\ out' = [valid |-> TRUE, X |-> X, labels |-> ArgMax(r.output)]
    /\ hist' = [hist EXCEPT !.last = "predict", !.repeat = out.valid /\ out.X = X]
    /\ UNCHANGED <<data, net, heap, errors, pc, fr, ret, gbr, gfr, gout>>

\* predict(X), lines 201-204
Predict(X) ==
    /\ pc = "idle"
    /\ Len(layers) >= 1
    /\ WidthAfter(layers, Cols(X)) >= 1
    /\ LET r == ForwardPass(layers, X, 2, FALSE, rng)
       IN  /\ layers' = r.layers
           /\ rng' = r.rng
           /\ out' = [valid |-> TRUE, X |-> X, labels |-> ArgMax(r.output)]
    /\ hist' = [hist EXCEPT !.last = "predict", !.repeat = out.valid /\ out.X = X]
    /\ UNCHANGED <<data, net, heap, errors, pc, fr, ret, gbr, gfr, gout>>

Next ==
    \/ \E l \in NewLayers : Add(l)
    \/ Fit
    \/ EpochBegin
    \/ BatchForward
    \/ BatchLoss
    \/ BatchBackward
    \/ EpochEnd
    \/ FitReturn
    \/ \E X \in PredictInputs : Predict(X)

Spec == Init /\ [][Next]_vars

(***************************************************************************)
(* A Dense layer taken alone: initialize, forward_pass and backward_pass   *)
(* called directly, as a unit test does.                                   *)
(***************************************************************************)
InitLayer ==
    /\ rng \in LayerSeeds
    /\ MLPIdle
    /\ GBRIdle

\* layer = DenseLayer(...); layer.initialize(optimizer)
LayerInitialize(layer) ==
    /\ layers = << >>
    /\ layer.kind = "dense"
    /\ LET r == Initialize(layer, heap, net.optimizer, rng)
       IN  /\ layers' = <<r.layer>>
           /\ heap' = r.heap
           /\ rng' = r.rng
    /\ ret' = [NoRet EXCEPT !.op = "initialize"]
    /\ UNCHANGED <<data, net, errors, pc, fr, out, hist, gbr, gfr, gout>>

\* layer.forward_pass(X)
LayerForwardCall(X) ==
    /\ Len(layers) = 1
    /\ Cols(X) = layers[1].n_inputs
    /\ LET r == DenseForward(layers[1], X, 2, TRUE, rng)
       IN  /\ layers' = <<r.layer>>
           /\ ret' = [NoRet EXCEPT !.op = "forward_pass", !.arg = X, !.value = r.output]
    /\ UNCHANGED <<rng, data, net, heap, errors, pc, fr, out, hist, gbr, gfr, gout>>

\* layer.backward_pass(acc_grad), after a forward pass of as many rows
LayerBackwardCall(acc_grad) ==
    /\ Len(layers) = 1
    /\ hist.direct < MaxCalls
    /\ Rows(layers[1].layer_input) = Rows(acc_grad)
    /\ Cols(acc_grad) = layers[1].n_units
    /\ LET r == DenseBackward(layers[1], heap, acc_grad)
       IN  /\ layers' = <<r.layer>>
           /\ heap' = r.heap
           /\ ret' = [op |-> "backward_pass", arg |-> acc_grad, value |-> r.acc_grad,
                      grad_w |-> r.grad_w]
    /\ hist' = [hist EXCEPT !.direct = @ + 1]
    /\ UNCHANGED <<rng, data, net, errors, pc, fr, out, gbr, gfr, gout>>

NextLayer ==
    \/ \E l \in NewLayers : LayerInitialize(l)
    \/ \E X \in LayerInputs : LayerForwardCall(X)
    \/ \E r \in 1..2, c \in 1..2 : \E g \in LayerGradients(r, c) : LayerBackwardCall(g)

SpecLayer == InitLayer /\ [][NextLayer]_vars

(***************************************************************************)
(* The batch schedule of fit taken alone: lines 137-146 for any n_samples  *)
(* and batch_size, the passes through the layers left out.                 *)
(***************************************************************************)
InitSplit ==
    /\ rng = 0
    /\ \E n \in 1..MaxSamples, bs \in 1..MaxSamples :
          /\ net = MLPInit(1, bs, [given |-> FALSE, X |-> NoArray, y |-> << >>], 0)
          /\ fr = [NoFrame EXCEPT !.n_samples = n, !.n_batches = NBatches(n, bs)]
    /\ pc = "epoch"
    /\ data = NoData
    /\ layers = << >>
    /\ heap = <<OptimizerTemplate>>
    /\ errors = [training |-> << >>, validation |-> << >>]
    /\ out = NoOut
    /\ hist = NoHist
    /\ ret = NoRet
    /\ GBRIdle

\* line 145: the splits of the epoch, or np.array_split's ValueError
SplitEpoch ==
    /\ pc = "epoch"
    /\ fr.it < net.n_iterations
    /\ IF fr.n_batches <= 0
       THEN /\ pc' = "raised"
            /\ fr' = fr
       ELSE /\ fr' = [fr EXCEPT !.splits = ArraySplit(fr.n_samples, fr.n_batches),
                                !.b = 1, !.seen = << >>]
            /\ pc' = "batch"
    /\ UNCHANGED <<rng, data, net, layers, heap, errors, out, hist, ret, gbr, gfr, gout>>

\* line 146: the next idx of the loop takes its rows
SplitBatch ==
    /\ pc = "batch"
    /\ fr.b <= Len(fr.splits)
    /\ fr' = [fr EXCEPT !.seen = @ \o fr.splits[fr.b], !.b = @ + 1]
    /\ UNCHANGED <<rng, data, net, layers, heap, errors, pc, out, hist, ret, gbr, gfr, gout>>

\* the loop over the splits is exhausted
SplitEnd ==
    /\ pc = "batch"
    /\ fr.b > Len(fr.splits)
    /\ fr' = [fr EXCEPT !.it = @ + 1]
    /\ pc' = "epoch"
    /\ UNCHANGED <<rng, data, net, layers, heap, errors, out, hist, ret, gbr, gfr, gout>>

NextSplit ==
    \/ SplitEpoch
    \/ SplitBatch
    \/ SplitEnd

SpecSplit == InitSplit /\ [][NextSplit]_vars

(***************************************************************************)
(* GradientBoostingRegressor                                               *)
(***************************************************************************)
\* RegressionTree.fit(X, residuals): some tree, which predicts one leaf value
\* for each feature value
TreeFit(tree, leaf) == [fitted |-> TRUE, leaf |-> leaf]

\* RegressionTree.predict(X)
TreePredict(tree, X) == [i \in 1..Len(X) |-> tree.leaf[X[i]]]

\* y_pred -= np.multiply(learning_rate, pred)
Accumulate(y_pred, learning_rate, pred) ==
    [i \in 1..Len(y_pred) |-> y_pred[i] - learning_rate * pred[i]]

\* GradientBoostingRegressor.__init__
GBRInit(n_estimators, learning_rate) ==
    [n_estimators |-> n_estimators, learning_rate |-> learning_rate,
     trees |-> [t \in 1..n_estimators |-> NoTree]]

RECURSIVE GBRPredictFrom(_, _, _, _)
GBRPredictFrom(trees, learning_rate, X, y_pred) ==
    IF Len(trees) = 0 THEN y_pred
    ELSE GBRPredictFrom(Tail(trees), learning_rate, X,
                        Accumulate(y_pred, learning_rate, TreePredict(trees[1], X)))

\* a plausible slip: the trees' predictions are added
GBRPredictAdding(g, X) ==
    [i \in 1..Len(X) |->
        0 - GBRPredictFrom(g.trees, g.learning_rate, X, [k \in 1..Len(X) |-> 0])[i]]

\* GradientBoostingRegressor.predict(X), lines 48-52
GBRPredict(g, X) ==
    GBRPredictFrom(g.trees, g.learning_rate, X, [i \in 1..Len(X) |-> 0])

InitGBR ==
    /\ rng = 0
    /\ MLPIdle
    /\ \E n \in 0..MaxEstimators, lr \in LearningRates : gbr = GBRInit(n, lr)
    /\ gfr = NoGFrame
    /\ gout = NoGOut

\* fit(X, y), line 40
GBRFit(d) ==
    /\ gfr.pc = "idle"
    /\ gfr.fits < MaxFits
    /\ gfr' = [pc |-> "fit", fits |-> gfr.fits + 1, X |-> d.X, y |-> d.y,
               y_pred |-> [i \in 1..Len(d.y) |-> 0], i |-> 1]
    /\ gout' = NoGOut
    /\ UNCHANGED <<gbr>>
    /\ UNCHANGED mlpVars

\* fit, lines 41-46: the next tree
GBRFitTree(leaf) ==
    /\ gfr.pc = "fit"
    /\ gfr.i <= Len(gbr.trees)
    /\ LET residuals == [k \in 1..Len(gfr.y) |-> 0 - (gfr.y[k] - gfr.y_pred[k])]
           tree == TreeFit(gbr.trees[gfr.i], leaf)
           residual_pred == TreePredict(tree, gfr.X)
       IN  /\ gbr' = [gbr EXCEPT !.trees[gfr.i] = tree]
           /\ gfr' = [gfr EXCEPT
                        !.y_pred = Accumulate(@, gbr.learning_rate, residual_pred),
                        !.i = @ + 1]
    /\ UNCHANGED <<gout>>
    /\ UNCHANGED mlpVars

\* fit returns
GBRFitReturn ==
    /\ gfr.pc = "fit"
    /\ gfr.i > Len(gbr.trees)
    /\ gfr' = [gfr EXCEPT !.pc = "idle"]
    /\ UNCHANGED <<gbr, gout>>
    /\ UNCHANGED mlpVars

\* predict(X); a tree that was never fitted has no root to predict from
GBRPredictCall(X) ==
    /\ gfr.pc = "idle"
    /\ IF \E t \in 1..Len(gbr.trees) : ~gbr.trees[t].fitted
       THEN gout' = [NoGOut EXCEPT !.raised = TRUE, !.X = X]
       ELSE gout' = [valid |-> TRUE, raised |-> FALSE, X |-> X,
                     y_pred |-> GBRPredict(gbr, X)]
    /\ UNCHANGED <<gbr, gfr>>
    /\ UNCHANGED mlpVars

NextGBR ==
    \/ \E d \in GBRDatasets : GBRFit(d)
    \/ \E leaf \in [FeatureValues -> LeafValues] : GBRFitTree(leaf)
    \/ GBRFitReturn
    \/ \E X \in GBRInputs \cup {d.X : d \in GBRDatasets} : GBRPredictCall(X)

SpecGBR == InitGBR /\ [][NextGBR]_vars

(***************************************************************************)
(* The claims                                                              *)
(***************************************************************************)
\* C1: the gradient a Dense layer's backward_pass returns is layer_grad . W.T
\* with W as it was before the call's optimizer update, so the update of the
\* call has no influence on it; for W = [[1],[1]], bias 0, identity, cached
\* input [[1,2]] and incoming gradient [[1]] the weight gradient is [[1],[2]]
\* and the returned gradient [[1,1]].
C1_ReturnsPreUpdateGradient ==
    [][(ret'.op = "backward_pass" /\ hist'.direct = hist.direct + 1)
        => /\ ret'.value = Dot(LayerGrad(layers[1], ret'.arg), Transpose(layers[1].W))
           /\ (/\ layers[1].W = << <<1>>, <<1>> >>
               /\ layers[1].wb = << <<0>> >>
               /\ layers[1].activation = "identity"
               /\ layers[1].layer_input = << <<1, 2>> >>
               /\ ret'.arg = << <<1>> >>)
              => /\ ret'.grad_w = << <<1>>, <<2>> >>
                 /\ ret'.value = << <<1, 1>> >>]_vars

\* C2: the validation forward pass at the end of an epoch of fit runs the
\* layers with training = false: no Dropout layer gets a new mask, no draw is
\* taken from the generator, and the loss recorded is that of the
\* inference-mode output.
C2_ValidationPassIsInference ==
    [][(pc = "batch" /\ pc' = "epoch" /\ net.val_nd = 2 /\ AnyNonZero(net.X_val))
        => /\ rng' = rng
           /\ \A i \in 1..Len(layers) :
                 layers[i].kind = "dropout" => layers'[i].mask = layers[i].mask
           /\ Len(errors'.validation) = Len(errors.validation) + 1
           /\ errors'.validation[Len(errors'.validation)] =
                 LossMean(net.y_val, ForwardPass(layers, net.X_val, 2, FALSE, rng).output)]_vars

\* C3: a predict call leaves every Dense layer's W and wb, every optimizer
\* instance and the error history as they were, and a predict call on the X of
\* the predict call just before it returns the same labels.
C3_PredictUpdatesNothing ==
    [][\A X \in PredictInputs :
          Predict(X) => /\ Params(layers') = Params(layers)
                        /\ heap' = heap
                        /\ errors' = errors
                        /\ (out.valid /\ out.X = X) => out'.labels = out.labels]_vars

\* reached: a second predict call on the same X, on a fitted network that
\* holds a Dense and a Dropout layer
C3_Witness ==
    /\ hist.last = "predict"
    /\ hist.repeat
    /\ hist.fits >= 1
    /\ Len(errors.training) >= 1
    /\ \E i, j \in 1..Len(layers) : layers[i].kind = "dense" /\ layers[j].kind = "dropout"

\* C4: each Dense layer's W and wb has an optimizer instance of its own,
\* created when add initializes the layer and kept for good: the instances of
\* all parameters are distinct from each other and from the network's
\* template, no step changes which instance a parameter has, the template is
\* never changed, and a step changes only instances that belong to a parameter.
C4_OptimizerPerParameter ==
    [][/\ \A i \in 1..Len(layers') :
             layers'[i].kind = "dense"
             => /\ layers'[i].W_opt \in 1..Len(heap')
                /\ layers'[i].wb_opt \in 1..Len(heap')
                /\ layers'[i].W_opt # layers'[i].wb_opt
                /\ layers'[i].W_opt # net'.optimizer
                /\ layers'[i].wb_opt # net'.optimizer
                /\ \A j \in 1..Len(layers') :
                      (j # i /\ layers'[j].kind = "dense")
                      => {layers'[i].W_opt, layers'[i].wb_opt}
                            \cap {layers'[j].W_opt, layers'[j].wb_opt} = {}
       /\ \A i \in 1..Len(layers) :
             layers[i].kind = "dense"
             => /\ layers'[i].W_opt = layers[i].W_opt
                /\ layers'[i].wb_opt = layers[i].wb_opt
       /\ Len(layers') > Len(layers)
          => /\ \A k \in 1..Len(heap) : heap'[k] = heap[k]
             /\ \A k \in (Len(heap) + 1)..Len(heap') : heap'[k] = heap[net.optimizer]
             /\ layers'[Len(layers')].kind = "dense"
                => /\ Len(heap') = Len(heap) + 2
                   /\ layers'[Len(layers')].W_opt > Len(heap)
                   /\ layers'[Len(layers')].wb_opt > Len(heap)
       /\ heap'[net.optimizer] = heap[net.optimizer]
       /\ \A k \in 1..Len(heap) :
             heap'[k] # heap[k]
             => \E i \in 1..Len(layers) :
                   /\ layers[i].kind = "dense"
                   /\ k \in {layers[i].W_opt, layers[i].wb_opt}]_vars

\* reached: two Dense layers after a backward pass, the four instances in
\* states that differ from the template's
C4_Witness ==
    /\ Len(layers) = 2
    /\ layers[1].kind = "dense"
    /\ layers[2].kind = "dense"
    /\ pc = "batch"
    /\ fr.b > 1
    /\ heap[layers[1].W_opt] # heap[layers[1].wb_opt]
    /\ heap[layers[2].W_opt] # heap[layers[2].wb_opt]
    /\ \A k \in 2..Len(heap) : heap[k] # heap[net.optimizer]

\* C5: the training error history only grows, by one entry at a time, at the
\* end of an epoch whose batches have all run, the entries it held staying as
\* they were; when fit returns it holds n_iterations entries more than when
\* fit was called.
C5_TrainingHistoryAppendOnly ==
    [][/\ Len(errors'.training) >= Len(errors.training)
       /\ \A k \in 1..Len(errors.training) : errors'.training[k] = errors.training[k]
       /\ Len(errors'.training) # Len(errors.training)
          => /\ Len(errors'.training) = Len(errors.training) + 1
             /\ pc = "batch"
             /\ pc' = "epoch"
             /\ fr'.it = fr.it + 1
             /\ fr.b = fr.n_batches + 1
             /\ Len(fr.seen) = fr.n_samples
             /\ Len(fr.batch_t_error) = fr.n_batches
       /\ (pc = "batch" /\ pc' = "epoch")
          => Len(errors'.training) = Len(errors.training) + 1
       /\ pc' = "epoch" => Len(errors'.training) = hist'.len0 + fr'.it
       /\ (pc = "epoch" /\ pc' = "idle")
          => Len(errors.training) = hist.len0 + net.n_iterations]_vars

\* reached: a fit of two epochs has returned
C5_Witness ==
    /\ pc = "idle"
    /\ hist.last = "fit returned"
    /\ net.n_iterations = 2
    /\ Len(errors.training) = hist.len0 + 2

\* C6: with validation_data supplied every completed epoch has appended one
\* entry to the validation history, whatever the validation matrix holds; with
\* none supplied the validation history stays empty.
C6_ValidationRecordedIffSupplied ==
    pc = "epoch"
    => IF net.val_nd = 2
       THEN Len(errors.validation) = hist.vlen0 + fr.it
       ELSE Len(errors.validation) = 0

\* C7: for n_samples >= batch_size >= 1 the positions 0..n_samples-1 are split
\* into floor(n_samples / batch_size) non-empty runs of consecutive positions
\* that follow one another, so each position is in one batch only, the sizes
\* differ by one at most, and the batch loop has taken each position once when
\* it ends.
C7_BatchesPartitionSamples ==
    (pc = "batch" /\ fr.n_samples >= net.batch_size)
    => LET n == fr.n_samples
           s == fr.splits
           RECURSIVE Flat(_)
           Flat(q) == IF Len(q) = 0 THEN << >> ELSE q[1] \o Flat(Tail(q))
       IN  /\ Len(s) * net.batch_size <= n
           /\ (Len(s) + 1) * net.batch_size > n
           /\ \A k \in 1..Len(s) :
                 /\ Len(s[k]) >= 1
                 /\ \A m \in 1..(Len(s[k]) - 1) : s[k][m + 1] = s[k][m] + 1
           /\ Flat(s) = [i \in 1..n |-> i - 1]
           /\ \A k, l \in 1..Len(s) : Len(s[k]) - Len(s[l]) <= 1
           /\ fr.b > Len(s) => fr.seen = [i \in 1..n |-> i - 1]

\* reached: the loop over three batches of unequal size has ended
C7_Witness ==
    /\ pc = "batch"
    /\ fr.n_samples = 7
    /\ net.batch_size = 2
    /\ Len(fr.splits) = 3
    /\ fr.b > Len(fr.splits)
    /\ Len(fr.splits[1]) = 3
    /\ Len(fr.splits[3]) = 2

\* C8: predict(X) is 0 minus learning_rate times each tree's prediction, the
\* trees taken in order; on the training X after fit it equals the running
\* prediction fit ended with; with n_estimators = 0 it is all zeros and never
\* fails, before or after fit.
C8_PredictRepeatsFit ==
    /\ gout.valid
       => LET RECURSIVE Sum(_, _)
              Sum(t, x) == IF t = 0 THEN 0
                           ELSE Sum(t - 1, x) - gbr.learning_rate * gbr.trees[t].leaf[x]
          IN  /\ Len(gout.y_pred) = Len(gout.X)
              /\ \A i \in 1..Len(gout.X) :
                    gout.y_pred[i] = Sum(Len(gbr.trees), gout.X[i])
    /\ (gout.valid /\ gfr.fits >= 1 /\ gfr.pc = "idle" /\ gout.X = gfr.X)
       => gout.y_pred = gfr.y_pred
    /\ Len(gbr.trees) = gbr.n_estimators
    /\ gbr.n_estimators = 0
       => /\ ~gout.raised
          /\ gout.valid => \A i \in 1..Len(gout.X) : gout.y_pred[i] = 0

\* reached: predict on the training X after a fit of two trees, the
\* prediction not zero
C8_Witness ==
    /\ gout.valid
    /\ gfr.fits >= 1
    /\ gfr.pc = "idle"
    /\ gout.X = gfr.X
    /\ gbr.n_estimators = 2
    /\ gbr.trees[1].leaf # gbr.trees[2].leaf
    /\ \E i \in 1..Len(gout.X) : gout.y_pred[i] # 0

\* C9: a batch of fit calls forward_pass on each layer once in insertion order
\* with training = true, then the loss gradient, then backward_pass on each
\* layer once in reverse order; each Dense layer's W and wb has been updated
\* once for each batch done, and n_iterations * floor(n_samples / batch_size)
\* times when fit returns.
C9_OneCyclePerBatch ==
    LET L == Len(layers)
        Cycle == [k \in 1..(2 * L + 1) |->
                    IF k <= L THEN <<"forward_pass", k, TRUE>>
                    ELSE IF k = L + 1 THEN <<"loss_gradient", 0, TRUE>>
                    ELSE <<"backward_pass", 2 * L + 2 - k, TRUE>>]
        Updates(c) == \A i \in 1..L :
                         layers[i].kind = "dense"
                         => /\ hist.nupd[layers[i].W_opt] = c
                            /\ hist.nupd[layers[i].wb_opt] = c
    IN  /\ pc = "loss" => hist.calls = SubSeq(Cycle, 1, L)
        /\ pc = "backward" => hist.calls = SubSeq(Cycle, 1, L + 1)
        /\ (pc = "batch" /\ fr.b > 1) => hist.calls = Cycle
        /\ pc \in {"batch", "loss", "backward"}
           => Updates(fr.it * (fr.n_samples \div net.batch_size) + fr.b - 1)
        /\ pc = "epoch" => Updates(fr.it * (fr.n_samples \div net.batch_size))
        /\ (pc = "idle" /\ hist.last = "fit returned")
           => Updates(net.n_iterations * (Rows(data.X) \div net.batch_size))

\* reached: a fit of two epochs of two batches on two Dense layers has returned
C9_Witness ==
    /\ pc = "idle"
    /\ hist.last = "fit returned"
    /\ net.n_iterations = 2
    /\ Rows(data.X) \div net.batch_size = 2
    /\ Len(layers) = 2
    /\ layers[1].kind = "dense"
    /\ layers[2].kind = "dense"
    /\ hist.nupd[layers[1].W_opt] = 4
    /\ Len(hist.calls) = 5

\* C10: a fit with n_iterations >= 1 and fewer samples than batch_size fails
\* in its first epoch, with every layer's W and wb, every optimizer instance
\* and both error histories as they were when fit was called.
C10_NoBatchAborts ==
    [][(pc = "epoch" /\ net.n_iterations >= 1 /\ fr.n_samples < net.batch_size)
        => /\ pc' = "raised"
           /\ fr.it = 0
           /\ fr'.it = 0
           /\ Params(layers') = hist.params0
           /\ heap' = hist.heap0
           /\ Len(errors'.training) = hist.len0
           /\ Len(errors'.validation) = hist.vlen0]_vars

\* reached: fit has failed on a network with a Dense layer
C10_Witness ==
    /\ pc = "raised"
    /\ fr.n_samples = 1
    /\ net.batch_size = 2
    /\ \E i \in 1..Len(layers) : layers[i].kind = "dense"

====
